---- MODULE Spec2Model ----
(***************************************************************************)
(* Model of server.py: the PostgreSQL MCP server's two tools,              *)
(* list_databases and execute_sql, the connection helper get_connection    *)
(* and the read-only classifier is_read_only_query.  Each in-flight tool   *)
(* call is a process whose position (pc) is the next statement of the tool *)
(* body that talks to the driver; the PostgreSQL server and the psycopg2   *)
(* driver are the environment, whose answers are nondeterministic.         *)
(***************************************************************************)
EXTENDS Integers, Sequences, FiniteSets, TLC

\* ------------------------------------------------------------------ bounds
NumCalls == 1          \* tool calls that may be in flight at once
MaxConns == 2          \* sessions the server accepts at once (max_connections)
MaxTotal == 2          \* most rows a result set holds
MaxAffected == 1       \* largest affected-row count of a statement
MaxRowsCap == 1        \* largest configured max_rows besides the default

\* ------------------------------------------------------- program constants
DefaultQueryTimeout == 30
DefaultMaxRows == 1000

Calls == 1..NumCalls
ConnIds == 1..MaxConns

\* The configurations load_config may return, as far as the tools read them:
\* has is the set of optional keys config.json holds, the other fields their
\* values (the default where the key is missing).
Configs ==
    { [has |-> {}, read_only |-> FALSE,
       query_timeout |-> DefaultQueryTimeout, max_rows |-> DefaultMaxRows] }
    \cup { [has |-> {"read_only", "query_timeout", "max_rows"}, read_only |-> TRUE,
            query_timeout |-> 5, max_rows |-> k] : k \in 1..MaxRowsCap }
    \cup { [has |-> {"read_only", "max_rows"}, read_only |-> FALSE,
            query_timeout |-> DefaultQueryTimeout, max_rows |-> k] : k \in 1..MaxRowsCap }

\* config.get(key, default)
ConfigGet(cfg, key, default) == IF key \in cfg.has THEN cfg[key] ELSE default

\* ----------------------------------------------------------------- strings
\* A query is a sequence of one-character strings.
\* The ASCII whitespace str.strip() removes.
Whitespace == {" ", "\t", "\n", "\r", "\f"}

RECURSIVE LStrip(_)
LStrip(s) ==
    IF s = <<>> THEN <<>>
    ELSE IF Head(s) \in Whitespace THEN LStrip(Tail(s)) ELSE s

RECURSIVE RStrip(_)
RStrip(s) ==
    IF s = <<>> THEN <<>>
    ELSE IF s[Len(s)] \in Whitespace THEN RStrip(SubSeq(s, 1, Len(s) - 1)) ELSE s

\* str.strip()
Strip(s) == RStrip(LStrip(s))

Lower == <<"a","b","c","d","e","f","g","h","i","j","k","l","m",
           "n","o","p","q","r","s","t","u","v","w","x","y","z">>
UpperOf == <<"A","B","C","D","E","F","G","H","I","J","K","L","M",
             "N","O","P","Q","R","S","T","U","V","W","X","Y","Z">>

UpperChar(ch) ==
    IF \E i \in 1..Len(Lower) : Lower[i] = ch
    THEN UpperOf[CHOOSE i \in 1..Len(Lower) : Lower[i] = ch]
    ELSE ch

\* str.upper()
Upper(s) == [i \in 1..Len(s) |-> UpperChar(s[i])]

\* str.startswith(prefix)
StartsWith(s, p) == Len(s) >= Len(p) /\ SubSeq(s, 1, Len(p)) = p

safe_starts ==
    << <<"S","E","L","E","C","T">>,
       <<"S","H","O","W">>,
       <<"D","E","S","C","R","I","B","E">>,
       <<"E","X","P","L","A","I","N">>,
       <<"W","I","T","H">> >>

\* str.startswith(tuple of prefixes)
StartsWithAny(s, ps) == \E i \in 1..Len(ps) : StartsWith(s, ps[i])

\* is_read_only_query with its result inverted.
is_read_only_query_inverted(query) == ~StartsWithAny(Upper(Strip(query)), safe_starts)

\* is_read_only_query without the strip.
is_read_only_query_no_strip(query) == StartsWithAny(Upper(query), safe_starts)

is_read_only_query(query) == StartsWithAny(Upper(Strip(query)), safe_starts)

\* ------------------------------------------------------------- environment
\* The statements callers send.  text is the query string; the other fields
\* say what the server does with it: valid = it parses, columns = the columns
\* of the result set it describes (none: it describes no result set),
\* mutates = it changes data.
Statements ==
    { [text |-> <<"S","E","L","E","C","T"," ","1">>,
       valid |-> TRUE, columns |-> <<"?column?">>, mutates |-> FALSE],
      [text |-> <<"\n"," ","s","h","o","w"," ","a","l","l"," ">>,
       valid |-> TRUE, columns |-> <<"name", "setting", "description">>,
       mutates |-> FALSE],
      [text |-> <<"D","E","L","E","T","E"," ","F","R","O","M"," ","t">>,
       valid |-> TRUE, columns |-> <<>>, mutates |-> TRUE],
      [text |-> <<"D","E","L","E","T","E"," ","F","R","O","M"," ","t"," ",
                  "R","E","T","U","R","N","I","N","G"," ","x">>,
       valid |-> TRUE, columns |-> <<"x">>, mutates |-> TRUE],
      [text |-> <<"S","E","L","E","C","T"," ","1",";",
                  "D","E","L","E","T","E"," ","F","R","O","M"," ","t">>,
       valid |-> TRUE, columns |-> <<>>, mutates |-> TRUE],
      [text |-> <<"s","e","l","e","c","t","e","d">>,
       valid |-> FALSE, columns |-> <<>>, mutates |-> FALSE] }

\* The exceptions a driver call may raise: cls is the class the except
\* clauses test, text is str(e).
Excs ==
    { [cls |-> "psycopg2.Error", text |-> "Error: connection lost"],
      [cls |-> "Exception", text |-> "Database error: 'host'"] }

\* What execute raises when the server cancels a statement that ran past
\* statement_timeout (psycopg2.errors.QueryCanceled, a psycopg2.Error).
QueryCanceled ==
    [cls |-> "psycopg2.Error", text |-> "canceling statement due to statement timeout"]

\* Row i of a result set: RealDictCursor yields a mapping from column name
\* to value.
ResultRow(desc, i) == [k \in {desc[j] : j \in 1..Len(desc)} |-> i]

Min(a, b) == IF a < b THEN a ELSE b

\* fetchmany that ignores the size asked for (cursor.fetchall()).
fetchmany_all(cur, size) == [i \in 1..cur.rowcount |-> ResultRow(cur.description, i)]

\* cursor.fetchmany(size) of a client-side cursor holding rowcount rows, none
\* fetched yet: a size below zero or beyond the rows held means all of them.
fetchmany(cur, size) ==
    LET n == IF size > cur.rowcount \/ size < 0 THEN cur.rowcount ELSE size
    IN  [i \in 1..n |-> ResultRow(cur.description, i)]

\* [dict(row) for row in rows]
DictRows(rows) == [i \in 1..Len(rows) |-> rows[i]]

\* len(...)
len(seq) == Len(seq)

\* str(n) of an integer, as a sequence of one-character strings.
Digits == <<"0","1","2","3","4","5","6","7","8","9">>
RECURSIVE NatStr(_)
NatStr(n) == IF n < 10 THEN <<Digits[n + 1]>> ELSE NatStr(n \div 10) \o <<Digits[(n % 10) + 1]>>
IntStr(n) == IF n < 0 THEN <<"-">> \o NatStr(-n) ELSE NatStr(n)

\* ------------------------------------------------------------ pg_database
\* The server's catalogue of databases; a name is a sequence of
\* one-character strings.
PgDatabase ==
    { [datname |-> <<"s","a","l","e","s">>, datistemplate |-> FALSE],
      [datname |-> <<"t","e","m","p","l","a","t","e","1">>, datistemplate |-> TRUE],
      [datname |-> <<"p","o","s","t","g","r","e","s">>, datistemplate |-> FALSE],
      [datname |-> <<"t","e","m","p","l","a","t","e","0">>, datistemplate |-> TRUE],
      [datname |-> <<"s","a","l","e","s","_","2">>, datistemplate |-> FALSE],
      [datname |-> <<"h","r">>, datistemplate |-> FALSE] }

\* The order of the characters of a name (their codes): datname has the
\* type name, which ORDER BY compares character by character.
CharOrder == <<"0","1","2","3","4","5","6","7","8","9","_">> \o Lower
CharRank(ch) == CHOOSE i \in 1..Len(CharOrder) : CharOrder[i] = ch

RECURSIVE NameLess(_, _)
NameLess(a, b) ==
    IF a = <<>> THEN b # <<>>
    ELSE IF b = <<>> THEN FALSE
    ELSE IF Head(a) = Head(b) THEN NameLess(Tail(a), Tail(b))
    ELSE CharRank(Head(a)) < CharRank(Head(b))

\* SELECT datname as database_name FROM pg_database
\* WHERE datistemplate = false ORDER BY datname
RECURSIVE OrderByDatname(_)
OrderByDatname(rows) ==
    IF rows = {} THEN <<>>
    ELSE LET first == CHOOSE r \in rows :
                        \A o \in rows \ {r} : NameLess(r.datname, o.datname)
         IN  <<[database_name |-> first.datname]>> \o OrderByDatname(rows \ {first})

\* The introspection query without its WHERE clause.
IntrospectionResult_all == OrderByDatname(PgDatabase)

IntrospectionResult == OrderByDatname({r \in PgDatabase : r.datistemplate = FALSE})

\* ------------------------------------------------------------------- state
VARIABLES
    config,     \* the module-level config loaded at import
    pc,         \* pc[c]: the statement call c runs next
    req,        \* req[c]: the tool and arguments of call c
    conn,       \* conn[c]: the local conn of call c
    cur,        \* cur[c]: the local cursor of call c
    results,    \* results[c]: the local results of call c
    response,   \* response[c]: what call c returned
    exc,        \* exc[c]: the exception call c caught
    sessions    \* the connections open at the server

vars == <<config, pc, req, conn, cur, results, response, exc, sessions>>

NoReq == [op |-> "none", database |-> "", stmt |-> CHOOSE st \in Statements : TRUE]
NoConn == [id |-> 0, database |-> "", timeout |-> 0, txn |-> "idle",
           opened |-> 0, closed |-> 0, executed |-> 0, commits |-> 0]
NoCursor == [description |-> <<>>, rowcount |-> -1]
NoResponse == [status |-> "none"]
NoExc == [cls |-> "none", text |-> ""]

\* The state after import, with the call slots cs.
InitOn(cs, cfgs) ==
    /\ config \in cfgs
    /\ pc = [c \in cs |-> "idle"]
    /\ req = [c \in cs |-> NoReq]
    /\ conn = [c \in cs |-> NoConn]
    /\ cur = [c \in cs |-> NoCursor]
    /\ results = [c \in cs |-> <<>>]
    /\ response = [c \in cs |-> NoResponse]
    /\ exc = [c \in cs |-> NoExc]
    /\ sessions = {}

Init == InitOn(Calls, Configs)

\* ------------------------------------------------------------- responses
\* The dictionary execute_sql returns when read-only mode refuses the query.
ReadOnlyResponse ==
    [status |-> "error",
     message |-> <<"Server is in read-only mode. Only SELECT queries are allowed.">>,
     rows |-> <<>>, row_count |-> 0, columns |-> <<>>]

\* An error dictionary that reports a row count of -1.
DatabaseErrorResponse_minus_one(e) ==
    [status |-> "error", message |-> <<"Database error: ", e.text>>,
     rows |-> <<>>, row_count |-> -1, columns |-> <<>>]

\* The second except clause with the message of the first.
UnexpectedErrorResponse_same_prefix(e) ==
    [status |-> "error", message |-> <<"Database error: ", e.text>>,
     rows |-> <<>>, row_count |-> 0, columns |-> <<>>]

\* The dictionaries of execute_sql's two except clauses.
DatabaseErrorResponse(e) ==
    [status |-> "error", message |-> <<"Database error: ", e.text>>,
     rows |-> <<>>, row_count |-> 0, columns |-> <<>>]

UnexpectedErrorResponse(e) ==
    [status |-> "error", message |-> <<"Error: ", e.text>>,
     rows |-> <<>>, row_count |-> 0, columns |-> <<>>]

\* The dictionary of list_databases' except clause.
ListErrorResponse(e) ==
    [status |-> "error", message |-> <<e.text>>, databases |-> <<>>]

\* An except clause that catches the driver's errors only.
IsException_driver_only(e) == e.cls = "psycopg2.Error"

\* isinstance(e, Exception): both psycopg2.Error and every other error raised
\* by the driver calls derive from Exception.
IsException(e) == e.cls \in {"psycopg2.Error", "Exception"}

\* An except clause that tries the call again from the connection.
Raise_retry(c, e) ==
    /\ exc' = [exc EXCEPT ![c] = e]
    /\ response' = response
    /\ pc' = [pc EXCEPT ![c] = "connect"]

\* Call c's statement raised e: the except clauses of the tool it runs.
\* Neither clause touches conn.
Raise(c, e) ==
    /\ exc' = [exc EXCEPT ![c] = e]
    /\ IF req[c].op = "list_databases"
       THEN IF IsException(e)
            THEN /\ response' = [response EXCEPT ![c] = ListErrorResponse(e)]
                 /\ pc' = [pc EXCEPT ![c] = "done"]
            ELSE /\ response' = response
                 /\ pc' = [pc EXCEPT ![c] = "raised"]
       ELSE IF e.cls = "psycopg2.Error"
            THEN /\ response' = [response EXCEPT ![c] = DatabaseErrorResponse(e)]
                 /\ pc' = [pc EXCEPT ![c] = "done"]
            ELSE IF IsException(e)
            THEN /\ response' = [response EXCEPT ![c] = UnexpectedErrorResponse(e)]
                 /\ pc' = [pc EXCEPT ![c] = "done"]
            ELSE /\ response' = response
                 /\ pc' = [pc EXCEPT ![c] = "raised"]

\* The message with the note tested by >= instead of >.
RowsMessage_ge(row_count, rowcount, max_rows) ==
    <<"Query executed successfully. Returned ">> \o IntStr(row_count) \o <<" rows.">>
    \o (IF rowcount >= max_rows
        THEN <<" (Limited to ">> \o IntStr(max_rows) \o <<" rows)">>
        ELSE <<>>)

\* The message of a row-returning success (lines 146-149).
RowsMessage(row_count, rowcount, max_rows) ==
    <<"Query executed successfully. Returned ">> \o IntStr(row_count) \o <<" rows.">>
    \o (IF rowcount > max_rows
        THEN <<" (Limited to ">> \o IntStr(max_rows) \o <<" rows)">>
        ELSE <<>>)

\* The success dictionary with a row count that adds what a module-level
\* counter kept from the connections earlier calls left open.
RowsResponse_shared(res, desc, rowcount, max_rows) ==
    [status |-> "success", rows |-> res,
     row_count |-> len(res) + Cardinality(sessions) - 1,
     columns |-> desc, message |-> RowsMessage(len(res), rowcount, max_rows)]

RowsResponse(res, desc, rowcount, max_rows) ==
    [status |-> "success", rows |-> res, row_count |-> len(res),
     columns |-> desc, message |-> RowsMessage(len(res), rowcount, max_rows)]

\* The mutation dictionary with the length of rows as its row count.
AffectedResponse_len_rows(row_count) ==
    [status |-> "success", rows |-> <<>>, row_count |-> 0, columns |-> <<>>,
     message |-> <<"Query executed successfully. ">> \o IntStr(row_count)
                 \o <<" rows affected.">>]

AffectedResponse(row_count) ==
    [status |-> "success", rows |-> <<>>, row_count |-> row_count, columns |-> <<>>,
     message |-> <<"Query executed successfully. ">> \o IntStr(row_count)
                 \o <<" rows affected.">>]

ListResponse(res) ==
    LET databases == [i \in 1..Len(res) |-> res[i].database_name]
    IN  [status |-> "success", databases |-> databases, count |-> len(databases)]

\* ----------------------------------------------------------------- driver
\* A close that is never made.
CloseConn_skipped(cn) == cn

\* conn.close(): the server ends the session and rolls back what the
\* transaction has not committed.
CloseConn(cn) ==
    [cn EXCEPT !.closed = @ + 1,
               !.txn = IF @ = "pending" THEN "rolledback" ELSE @]

\* conn.commit()
CommitConn(cn) ==
    [cn EXCEPT !.txn = IF @ = "pending" THEN "committed" ELSE @,
               !.commits = @ + 1]

\* A connect that hands out one connection kept for all calls.
NewConnIds_shared(sess) == ConnIds

\* psycopg2.connect(...): every call makes a new connection, a session the
\* server does not have yet.
NewConnIds(sess) == ConnIds \ sess

\* The timeout divided by 1000 instead of multiplied: 0, which turns the
\* server's statement timeout off.
TimeoutMs_divided(cfg) == ConfigGet(cfg, "query_timeout", DefaultQueryTimeout) \div 1000

\* The timeout left in seconds.
TimeoutMs_seconds(cfg) == ConfigGet(cfg, "query_timeout", DefaultQueryTimeout)

\* timeout_ms, line 130
TimeoutMs(cfg) == ConfigGet(cfg, "query_timeout", DefaultQueryTimeout) * 1000

\* ---------------------------------------------------------------- actions
\* A caller invokes a tool on a call slot that runs nothing; execute_sql gets
\* one of the statements stmts.
InvokeFrom(c, stmts) ==
    /\ pc[c] \in {"idle", "done", "raised"}
    /\ \/ \E st \in stmts :
            /\ req' = [req EXCEPT ![c] =
                         [op |-> "execute_sql", database |-> "sales", stmt |-> st]]
            /\ pc' = [pc EXCEPT ![c] = "gate"]
       \/ /\ req' = [req EXCEPT ![c] =
                       [op |-> "list_databases", database |-> "postgres",
                        stmt |-> NoReq.stmt]]
          /\ pc' = [pc EXCEPT ![c] = "connect"]
    /\ conn' = [conn EXCEPT ![c] = NoConn]
    /\ cur' = [cur EXCEPT ![c] = NoCursor]
    /\ results' = [results EXCEPT ![c] = <<>>]
    /\ response' = [response EXCEPT ![c] = NoResponse]
    /\ exc' = [exc EXCEPT ![c] = NoExc]
    /\ UNCHANGED <<config, sessions>>

Invoke(c) == InvokeFrom(c, Statements)

\* execute_sql, lines 116-124: the read-only check.
Gate(c) ==
    /\ pc[c] = "gate"
    /\ IF ConfigGet(config, "read_only", FALSE) /\ ~is_read_only_query(req[c].stmt.text)
       THEN /\ response' = [response EXCEPT ![c] = ReadOnlyResponse]
            /\ pc' = [pc EXCEPT ![c] = "done"]
       ELSE /\ response' = response
            /\ pc' = [pc EXCEPT ![c] = "connect"]
    /\ UNCHANGED <<config, req, conn, cur, results, exc, sessions>>

\* get_connection(database) and conn.cursor(), lines 126-127 and 61-62: the
\* server opens a session unless it refuses (psycopg2.connect raises, and
\* get_connection raises it again) or a config key is missing (KeyError).
Connect(c) ==
    /\ pc[c] = "connect"
    /\ \/ \E id \in NewConnIds(sessions) :
            /\ \A other \in NewConnIds(sessions) : id <= other
            /\ sessions' = sessions \cup {id}
            /\ conn' = [conn EXCEPT ![c] =
                          [id |-> id, database |-> req[c].database, timeout |-> 0,
                           txn |-> "idle", opened |-> conn[c].opened + 1,
                           closed |-> 0, executed |-> 0, commits |-> 0]]
            /\ pc' = [pc EXCEPT ![c] =
                        IF req[c].op = "list_databases" THEN "l_execute"
                        ELSE "set_timeout"]
            /\ UNCHANGED <<response, exc>>
       \/ \E e \in Excs :
            /\ Raise(c, e)
            /\ UNCHANGED <<conn, sessions>>
    /\ UNCHANGED <<config, req, cur, results>>

\* execute_sql, lines 130-131: SET statement_timeout.
SetTimeout(c) ==
    /\ pc[c] = "set_timeout"
    /\ \/ /\ conn' = [conn EXCEPT ![c].timeout = TimeoutMs(config)]
          /\ pc' = [pc EXCEPT ![c] = "execute"]
          /\ UNCHANGED <<response, exc>>
       \/ \E e \in Excs :
            /\ Raise(c, e)
            /\ UNCHANGED conn
    /\ UNCHANGED <<config, req, cur, results, sessions>>

\* execute_sql, lines 134-137: cursor.execute(query) and the test of
\* cursor.description.  The server runs the statement: a result set gives
\* the cursor a description and its row total, a statement without one gives
\* no description and the affected-row count.  A statement that runs past
\* the session's statement_timeout is cancelled by the server and execute
\* raises; with no timeout set (0) it is never cancelled and execute does not
\* return.
Execute(c) ==
    /\ pc[c] = "execute"
    /\ LET st == req[c].stmt IN
       \/ /\ st.valid
          /\ \E count \in 0..(IF st.columns # <<>> THEN MaxTotal ELSE MaxAffected) :
                cur' = [cur EXCEPT ![c] =
                         [description |-> st.columns, rowcount |-> count]]
          /\ conn' = [conn EXCEPT ![c].txn = IF st.mutates THEN "pending" ELSE @,
                                  ![c].executed = @ + 1]
          /\ pc' = [pc EXCEPT ![c] =
                      IF cur'[c].description # <<>> THEN "fetch" ELSE "commit"]
          /\ UNCHANGED <<response, exc>>
       \/ \E e \in Excs :
            /\ st.valid \/ e.cls = "psycopg2.Error"
            /\ Raise(c, e)
            /\ conn' = [conn EXCEPT ![c].executed = @ + 1]
            /\ UNCHANGED cur
       \/ /\ st.valid
          /\ IF conn[c].timeout > 0
             THEN Raise(c, QueryCanceled)
             ELSE /\ pc' = [pc EXCEPT ![c] = "hung"]
                  /\ UNCHANGED <<response, exc>>
          /\ conn' = [conn EXCEPT ![c].executed = @ + 1]
          /\ UNCHANGED cur
    /\ UNCHANGED <<config, req, results, sessions>>

\* execute_sql, lines 138-145: the columns, fetchmany(max_rows) and the
\* conversion of the rows.
Fetch(c) ==
    /\ pc[c] = "fetch"
    /\ \/ /\ results' = [results EXCEPT ![c] =
                DictRows(fetchmany(cur[c], ConfigGet(config, "max_rows", DefaultMaxRows)))]
          /\ pc' = [pc EXCEPT ![c] = "close"]
          /\ UNCHANGED <<response, exc>>
       \/ \E e \in Excs :
            /\ Raise(c, e)
            /\ UNCHANGED results
    /\ UNCHANGED <<config, req, conn, cur, sessions>>

\* execute_sql, lines 163-164: conn.commit() on the branch without a
\* description.
Commit(c) ==
    /\ pc[c] = "commit"
    /\ \/ /\ conn' = [conn EXCEPT ![c] = CommitConn(@)]
          /\ pc' = [pc EXCEPT ![c] = "close"]
          /\ UNCHANGED <<response, exc>>
       \/ \E e \in Excs :
            /\ Raise(c, e)
            /\ UNCHANGED conn
    /\ UNCHANGED <<config, req, cur, results, sessions>>

\* execute_sql, lines 146-160 and 166-175: cursor.close(), conn.close() and
\* the success dictionary of the branch taken.
Close(c) ==
    /\ pc[c] = "close"
    /\ \/ /\ conn' = [conn EXCEPT ![c] = CloseConn(@)]
          /\ sessions' = sessions \ {conn[c].id}
          /\ response' = [response EXCEPT ![c] =
                IF cur[c].description # <<>>
                THEN RowsResponse(results[c], cur[c].description, cur[c].rowcount,
                                  ConfigGet(config, "max_rows", DefaultMaxRows))
                ELSE AffectedResponse(cur[c].rowcount)]
          /\ pc' = [pc EXCEPT ![c] = "done"]
          /\ UNCHANGED exc
       \/ \E e \in Excs :
            /\ Raise(c, e)
            /\ UNCHANGED <<conn, sessions>>
    /\ UNCHANGED <<config, req, cur, results>>

\* list_databases, line 71: cursor.execute of the introspection query.
ListExecute(c) ==
    /\ pc[c] = "l_execute"
    /\ \/ /\ cur' = [cur EXCEPT ![c] =
                        [description |-> <<"database_name">>,
                         rowcount |-> Len(IntrospectionResult)]]
          /\ pc' = [pc EXCEPT ![c] = "l_fetch"]
          /\ UNCHANGED <<response, exc>>
       \/ \E e \in Excs :
            /\ Raise(c, e)
            /\ UNCHANGED cur
    /\ UNCHANGED <<config, req, conn, results, sessions>>

\* list_databases, line 72: cursor.fetchall().
ListFetch(c) ==
    /\ pc[c] = "l_fetch"
    /\ \/ /\ results' = [results EXCEPT ![c] = IntrospectionResult]
          /\ pc' = [pc EXCEPT ![c] = "l_close"]
          /\ UNCHANGED <<response, exc>>
       \/ \E e \in Excs :
            /\ Raise(c, e)
            /\ UNCHANGED results
    /\ UNCHANGED <<config, req, conn, cur, sessions>>

\* list_databases, lines 74-83: cursor.close(), conn.close() and the
\* success dictionary.
ListClose(c) ==
    /\ pc[c] = "l_close"
    /\ \/ /\ conn' = [conn EXCEPT ![c] = CloseConn(@)]
          /\ sessions' = sessions \ {conn[c].id}
          /\ response' = [response EXCEPT ![c] = ListResponse(results[c])]
          /\ pc' = [pc EXCEPT ![c] = "done"]
          /\ UNCHANGED exc
       \/ \E e \in Excs :
            /\ Raise(c, e)
            /\ UNCHANGED <<conn, sessions>>
    /\ UNCHANGED <<config, req, cur, results>>

Next ==
    \E c \in Calls :
        \/ Invoke(c)
        \/ Gate(c)
        \/ Connect(c)
        \/ SetTimeout(c)
        \/ Execute(c)
        \/ Fetch(c)
        \/ Commit(c)
        \/ Close(c)
        \/ ListExecute(c)
        \/ ListFetch(c)
        \/ ListClose(c)

Spec == Init /\ [][Next]_vars

\* ------------------------------------------------- further specifications
\* The steps of a call under way: each is one blocking driver call, which
\* the driver ends by returning or raising.
Step(c) ==
    \/ Gate(c)
    \/ Connect(c)
    \/ SetTimeout(c)
    \/ Execute(c)
    \/ Fetch(c)
    \/ Commit(c)
    \/ Close(c)
    \/ ListExecute(c)
    \/ ListFetch(c)
    \/ ListClose(c)

\* One call at a time, every step of which is eventually taken: the driver
\* calls block, they do not wait for another call of this process.
FirstCall == {1}

NextAlone ==
    \E c \in FirstCall :
        \/ Invoke(c)
        \/ Gate(c)
        \/ Connect(c)
        \/ SetTimeout(c)
        \/ Execute(c)
        \/ Fetch(c)
        \/ Commit(c)
        \/ Close(c)
        \/ ListExecute(c)
        \/ ListFetch(c)
        \/ ListClose(c)

FairSpec ==
    /\ InitOn(FirstCall, Configs)
    /\ [][NextAlone]_vars
    /\ \A c \in FirstCall : WF_vars(Step(c))

\* Calls in flight together, one more than Spec runs, under the default
\* configuration: list_databases and execute_sql of a mutating statement
\* (which describes no result set, so that no call reaches Fetch).
ConcurrentCalls == 1..(NumCalls + 1)

ConcurrentStatements ==
    { st \in Statements :
        st.text = <<"D","E","L","E","T","E"," ","F","R","O","M"," ","t">> }

ConcurrentConfigs == { cfg \in Configs : cfg.has = {} }

NextConcurrent ==
    \E c \in ConcurrentCalls :
        \/ InvokeFrom(c, ConcurrentStatements)
        \/ Gate(c)
        \/ Connect(c)
        \/ SetTimeout(c)
        \/ Execute(c)
        \/ Commit(c)
        \/ Close(c)
        \/ ListExecute(c)
        \/ ListFetch(c)
        \/ ListClose(c)

SpecConcurrent == InitOn(ConcurrentCalls, ConcurrentConfigs) /\ [][NextConcurrent]_vars

\* ------------------------------------------------------------------ claims
\* What the claims speak of, stated apart from the code's own helpers.
IsExecuteSql(c) == req[c].op = "execute_sql"
IsListDatabases(c) == req[c].op = "list_databases"
Returned(c) == pc[c] = "done"
ReadOnlyEnabled == "read_only" \in config.has /\ config.read_only
EffectiveMaxRows == config.max_rows

Keywords == { <<"S","E","L","E","C","T">>, <<"S","H","O","W">>,
              <<"D","E","S","C","R","I","B","E">>, <<"E","X","P","L","A","I","N">>,
              <<"W","I","T","H">> }

\* q, with its leading whitespace skipped and letter case ignored, begins
\* with keyword k.
BeginsWith(q, k) ==
    \E i \in 1..Len(q) :
        /\ \A j \in 1..(i - 1) : q[j] \in Whitespace
        /\ q[i] \notin Whitespace
        /\ i + Len(k) - 1 <= Len(q)
        /\ \A j \in 1..Len(k) : UpperChar(q[i + j - 1]) = k[j]

HasAcceptedPrefix(q) == \E k \in Keywords : BeginsWith(q, k)

EmptyErrorShape(r) ==
    /\ r.status = "error"
    /\ r.rows = <<>>
    /\ r.row_count = 0
    /\ r.columns = <<>>

\* C1: in read-only mode, an execute_sql call whose query does not begin
\* (trimmed, case ignored) with SELECT, SHOW, DESCRIBE, EXPLAIN or WITH never
\* gets past the check, opens no connection, and returns the empty error
\* shape.
C1_ReadOnlyRejects ==
    \A c \in Calls :
        (IsExecuteSql(c) /\ ReadOnlyEnabled /\ ~HasAcceptedPrefix(req[c].stmt.text))
        => /\ pc[c] \in {"gate", "done"}
           /\ conn[c].opened = 0
           /\ conn[c].id = 0
           /\ Returned(c) => EmptyErrorShape(response[c])

C1_Witness ==
    \E c \in Calls :
        /\ IsExecuteSql(c) /\ ReadOnlyEnabled /\ ~HasAcceptedPrefix(req[c].stmt.text)
        /\ Returned(c)
        /\ response[c].status = "error"

\* C2: whenever execute_sql returns, the connections it opened and the
\* connections it closed are equal in number.
C2_ExecuteSqlBalanced ==
    \A c \in Calls :
        (IsExecuteSql(c) /\ Returned(c)) => conn[c].opened = conn[c].closed

\* C3: whenever list_databases returns, the connection it opened is closed.
C3_ListDatabasesCloses ==
    \A c \in Calls :
        (IsListDatabases(c) /\ Returned(c)) => conn[c].opened = conn[c].closed

\* C4: no call ends by raising; a call that caught an exception at any step
\* returns status=error with a message, and only a call that caught none
\* returns success.
C4_NoErrorEscapes ==
    \A c \in Calls :
        /\ pc[c] # "raised"
        /\ Returned(c) =>
              /\ response[c].status \in {"success", "error"}
              /\ exc[c] # NoExc =>
                    /\ response[c].status = "error"
                    /\ response[c].message # <<>>

C4_Witness ==
    \E c \in Calls :
        /\ Returned(c)
        /\ exc[c].cls = "Exception"
        /\ conn[c].opened = 1
        /\ response[c].status = "error"

\* C5: a mutating statement that execute_sql reports as success was
\* committed before its connection was closed.
C5_SuccessfulMutationCommitted ==
    \A c \in Calls :
        (IsExecuteSql(c) /\ Returned(c) /\ response[c].status = "success"
            /\ req[c].stmt.mutates)
        => conn[c].txn = "committed"

\* A successful execute_sql call of a statement with a result set.
RowsSuccess(c) ==
    /\ IsExecuteSql(c) /\ Returned(c)
    /\ response[c].status = "success"
    /\ req[c].stmt.columns # <<>>

\* A successful execute_sql call of a statement without a result set.
AffectedSuccess(c) ==
    /\ IsExecuteSql(c) /\ Returned(c)
    /\ response[c].status = "success"
    /\ req[c].stmt.columns = <<>>

\* The message carries the truncation note.
HasTruncationNote(message) == \E i \in 1..Len(message) : message[i] = " (Limited to "

\* C6: a successful row-returning query returns min(total rows, max_rows)
\* rows, row_count is their number, and columns has one entry per column of
\* the result set.
C6_RowCap ==
    \A c \in Calls :
        RowsSuccess(c) =>
            /\ Len(response[c].rows) = Min(cur[c].rowcount, EffectiveMaxRows)
            /\ response[c].row_count = Len(response[c].rows)
            /\ response[c].columns = req[c].stmt.columns

C6_Witness ==
    \E c \in Calls :
        /\ RowsSuccess(c)
        /\ cur[c].rowcount > EffectiveMaxRows
        /\ Len(response[c].rows) = EffectiveMaxRows
        /\ Len(response[c].columns) > 1

\* C7: a successful row-returning query carries the truncation note exactly
\* when the total number of rows exceeds max_rows.
C7_TruncationNote ==
    \A c \in Calls :
        RowsSuccess(c) =>
            (HasTruncationNote(response[c].message) <=> cur[c].rowcount > EffectiveMaxRows)

C7_Witness ==
    \E c \in Calls :
        /\ RowsSuccess(c)
        /\ cur[c].rowcount = EffectiveMaxRows
        /\ ~HasTruncationNote(response[c].message)

\* C8: a successful statement without a result set returns no rows, no
\* columns and the affected-row count the server reported.
C8_AffectedShape ==
    \A c \in Calls :
        AffectedSuccess(c) =>
            /\ response[c].rows = <<>>
            /\ response[c].columns = <<>>
            /\ response[c].row_count = cur[c].rowcount

C8_Witness ==
    \E c \in Calls :
        /\ AffectedSuccess(c)
        /\ req[c].stmt.mutates
        /\ response[c].row_count = 1

\* C9: every execute_sql response is a success or an error, and every error
\* has no rows, no columns and row_count 0, also when rows were fetched
\* before the failure.
C9_ErrorsCarryNoRows ==
    \A c \in Calls :
        (IsExecuteSql(c) /\ Returned(c)) =>
            /\ response[c].status \in {"success", "error"}
            /\ response[c].status = "error" => EmptyErrorShape(response[c])

C9_Witness ==
    \E c \in Calls :
        /\ IsExecuteSql(c) /\ Returned(c)
        /\ response[c].status = "error"
        /\ exc[c].cls = "psycopg2.Error"
        /\ results[c] # <<>>

Slots == DOMAIN pc

\* The local state of call c.
Local(c) == <<pc[c], req[c], conn[c], cur[c], results[c], response[c], exc[c]>>

\* Call c holds a connection it opened and has not closed.
HoldsOpen(c) == conn[c].opened > 0 /\ conn[c].closed = 0

\* C11: under any interleaving, two calls never hold the same open
\* connection, the connection a call holds is a session of the server, no
\* step changes the local state of two calls, and no step changes config.
C11_ExclusiveOwnership ==
    /\ [](\A c \in Slots :
            HoldsOpen(c) =>
                /\ conn[c].id \in sessions
                /\ \A d \in Slots \ {c} : HoldsOpen(d) => conn[d].id # conn[c].id)
    /\ [][/\ config' = config
          /\ Cardinality({c \in Slots : Local(c)' # Local(c)}) <= 1]_vars

C11_Witness ==
    \E c \in Slots : \E d \in Slots \ {c} :
        /\ IsExecuteSql(c) /\ pc[c] = "commit"
        /\ IsListDatabases(d) /\ pc[d] = "l_fetch"
        /\ conn[c].id # conn[d].id

\* A call under way.
Running(c) == pc[c] \notin {"idle", "done", "raised"}

\* C12: a statement cancelled at the statement timeout ends the call with
\* an error response whose message begins "Database error: ", no call waits
\* for ever in execute, and every call under way returns a response.
C12_TimeoutSurfaces ==
    /\ [](\A c \in Slots :
            /\ pc[c] # "hung"
            /\ exc[c] = QueryCanceled =>
                  /\ Returned(c)
                  /\ response[c].status = "error"
                  /\ response[c].message[1] = "Database error: ")
    /\ \A c \in FirstCall : Running(c) ~> Returned(c)

C12_Witness ==
    \E c \in Slots :
        /\ IsExecuteSql(c) /\ Returned(c)
        /\ exc[c] = QueryCanceled
        /\ conn[c].timeout > 0

\* What a row-returning statement with columns cols and total rows gives
\* under the row cap cap, whatever went before.
ExpectedRows(cols, total, cap) ==
    LET n == Min(total, cap)
    IN  [status |-> "success",
         rows |-> [i \in 1..n |-> [k \in {cols[j] : j \in 1..Len(cols)} |-> i]],
         row_count |-> n,
         columns |-> cols,
         message |-> <<"Query executed successfully. Returned ">> \o IntStr(n)
                     \o <<" rows.">>
                     \o (IF total > cap
                         THEN <<" (Limited to ">> \o IntStr(cap) \o <<" rows)">>
                         ELSE <<>>)]

\* C13: the response of a successful row-returning execute_sql call is
\* decided by the statement, the rows the database holds for it and the
\* configuration alone: it is the same whatever calls went before and
\* however they ended.
C13_Stateless ==
    \A c \in Slots :
        RowsSuccess(c) =>
            response[c] = ExpectedRows(req[c].stmt.columns, cur[c].rowcount,
                                       EffectiveMaxRows)

C13_Witness ==
    \E c \in Slots :
        /\ RowsSuccess(c)
        /\ req[c].stmt.text = <<"S","E","L","E","C","T"," ","1">>
        /\ response[c].row_count = 1
        /\ sessions # {}

\* The names of the databases that are no templates.
NonTemplateNames == {r.datname : r \in {d \in PgDatabase : ~d.datistemplate}}

\* C14: a successful list_databases returns each database that is no
\* template once, no template database, in ascending order of the names,
\* and count is their number.
C14_ListIsSortedNonTemplates ==
    \A c \in Slots :
        (IsListDatabases(c) /\ Returned(c) /\ response[c].status = "success") =>
            LET dbs == response[c].databases IN
            /\ {dbs[i] : i \in 1..Len(dbs)} = NonTemplateNames
            /\ Len(dbs) = Cardinality(NonTemplateNames)
            /\ \A i \in 1..Len(dbs) : \A j \in 1..Len(dbs) :
                  i < j => NameLess(dbs[i], dbs[j])
            /\ response[c].count = Len(dbs)

C14_Witness ==
    \E c \in Slots :
        /\ IsListDatabases(c) /\ Returned(c)
        /\ response[c].status = "success"
        /\ response[c].count > 1

\* The statement timeout the configuration asks for, in milliseconds.
EffectiveTimeoutMs == config.query_timeout * 1000

\* C15: the caller's query is executed only on a connection whose statement
\* timeout was set to query_timeout * 1000 ms; a call whose SET failed never
\* executes the query.
C15_TimeoutBeforeQuery ==
    \A c \in Slots :
        IsExecuteSql(c) =>
            /\ (pc[c] = "execute" \/ conn[c].executed > 0) =>
                    /\ conn[c].timeout = EffectiveTimeoutMs
                    /\ conn[c].timeout > 0
            /\ conn[c].timeout = 0 => conn[c].executed = 0

C15_Witness ==
    \E c \in Slots :
        /\ IsExecuteSql(c)
        /\ conn[c].executed = 1
        /\ conn[c].timeout = 5000

\* The place of a statement in the order the tools run them.
PcRank(p) ==
    CASE p = "gate" -> 1
      [] p = "connect" -> 2
      [] p \in {"set_timeout", "l_execute"} -> 3
      [] p \in {"execute", "l_fetch"} -> 4
      [] p \in {"fetch", "commit", "l_close"} -> 5
      [] p = "close" -> 6
      [] OTHER -> 7

\* C16: a call opens at most one connection and executes the query at most
\* once; each step takes it forward in the order check, connect, execute,
\* classify, close, never back; a returned call changes only when the slot
\* is invoked anew; a refused call has opened no connection.
C16_SingleAttempt ==
    /\ [](\A c \in Slots :
            /\ conn[c].opened <= 1
            /\ conn[c].executed <= 1
            /\ conn[c].closed <= conn[c].opened
            /\ pc[c] \in {"gate", "connect"} => conn[c].opened = 0)
    /\ [][\A c \in Slots :
            IF pc[c] \in {"idle", "done"}
            THEN \/ Local(c)' = Local(c)
                 \/ /\ pc'[c] \in {"gate", "connect"}
                    /\ conn'[c] = NoConn
                    /\ response'[c] = NoResponse
            ELSE \/ Local(c)' = Local(c)
                 \/ /\ PcRank(pc'[c]) > PcRank(pc[c])
                    /\ req'[c] = req[c]
                    /\ conn'[c].opened >= conn[c].opened]_vars

C16_Witness ==
    \E c \in Slots :
        /\ IsExecuteSql(c) /\ Returned(c)
        /\ exc[c] # NoExc
        /\ conn[c].opened = 1
        /\ conn[c].executed = 1

\* The read-only check refused call c.
Rejected(c) == Returned(c) /\ exc[c] = NoExc /\ response[c].status = "error"

\* C17: an execute_sql call is refused by the check exactly when read_only
\* is enabled and the query lacks an accepted prefix; every other call goes
\* on to open a connection.
C17_GateExact ==
    \A c \in Slots :
        (IsExecuteSql(c) /\ pc[c] # "gate") =>
            /\ Rejected(c) <=> (ReadOnlyEnabled /\ ~HasAcceptedPrefix(req[c].stmt.text))
            /\ ~Rejected(c) =>
                  pc[c] = "connect" \/ conn[c].opened = 1 \/ exc[c] # NoExc

C17_Witness ==
    \E c \in Slots :
        /\ IsExecuteSql(c) /\ ReadOnlyEnabled
        /\ req[c].stmt.text = <<"\n"," ","s","h","o","w"," ","a","l","l"," ">>
        /\ conn[c].opened = 1

\* C18 as claimed: with read_only enabled no execute_sql call commits.
C18_NoCommitInReadOnly ==
    \A c \in Slots :
        (IsExecuteSql(c) /\ ReadOnlyEnabled) => conn[c].commits = 0

\* C18 as amended: with read_only enabled, an execute_sql call commits only
\* when its query has an accepted prefix and its execution describes no
\* result set; a query without an accepted prefix never commits.
C18_CommitOnlyBehindPrefix ==
    \A c \in Slots :
        (IsExecuteSql(c) /\ ReadOnlyEnabled /\ conn[c].commits > 0) =>
            /\ HasAcceptedPrefix(req[c].stmt.text)
            /\ cur[c].description = <<>>
            /\ conn[c].commits = 1

C18_Witness ==
    \E c \in Slots :
        /\ IsExecuteSql(c) /\ ReadOnlyEnabled
        /\ Returned(c) /\ response[c].status = "success"
        /\ conn[c].commits = 1
        /\ conn[c].txn = "committed"

\* C19: a call that returns success opened one connection and closed it
\* once before returning.
C19_SuccessAfterClose ==
    \A c \in Slots :
        (Returned(c) /\ response[c].status = "success") =>
            /\ conn[c].opened = 1
            /\ conn[c].closed = 1
            /\ exc[c] = NoExc

C19_Witness ==
    \E c \in Slots :
        /\ IsListDatabases(c) /\ Returned(c)
        /\ response[c].status = "success"
        /\ conn[c].closed = 1

====
